---- MODULE Spec2Model ----
(***************************************************************************)
(* Content publishing lifecycle of the social-media automation service:    *)
(* intake and quota check, AI generation, approval / rejection with        *)
(* regeneration, the multi-platform publish fan-out, the webhook intake    *)
(* and the daily recycling sweep.                                          *)
(*                                                                         *)
(* Request handlers load a row, change it and commit within one request;   *)
(* they are modelled as one atomic step.  Background tasks                 *)
(* (generate_and_process_content, regenerate_*, _publish_content,          *)
(* publish_approved_content, recycle_content) load their rows once, await  *)
(* external calls and commit later from the loaded copy (the session is    *)
(* created with expire_on_commit=False), so they are modelled as several   *)
(* steps that keep the loaded values.  A commit writes exactly the         *)
(* attributes whose new value differs from the value the session holds     *)
(* (SQLAlchemy's unit of work), see Flush.                                 *)
(***************************************************************************)
EXTENDS Naturals, Integers, Sequences, FiniteSets, TLC

VARIABLES
    client,      \* the Client row (quota fields, flags, platform configs)
    contents,    \* the contents table: sequence of Content rows, index = id
    genTasks,    \* generate_and_process_content tasks (asyncio.create_task)
    regenTasks,  \* regeneration background tasks
    pubTasks,    \* publish tasks (_publish_content / publish_approved_content)
    budget,      \* number of further review requests the model will serve
    denied,      \* number of submissions refused with "monthly post limit"
    mail,        \* outcome of the latest notification email that was attempted
    sweeps,      \* invocations of run_daily_recycling, finished ones included
    approving    \* POST /content/{id}/approve requests between the enqueue
                 \* of the publish job and their commit

vars ==
    <<client, contents, genTasks, regenTasks, pubTasks, budget, denied, mail,
      sweeps, approving>>

----------------------------------------------------------------------------
\* Bounds of the model

MaxContents == 2
MaxRequests == 2
MaxRejects == 4
MaxLimit == 2
MaxSweeps == 2
MaxApprovals == 1

\* Program constants

\* approval.py: "if content.retry_count < 3:  # Max 3 retries"
MaxRegenRetries == 3
\* settings.MAX_RETRY_ATTEMPTS
MAX_RETRY_ATTEMPTS == 3

NULL == "NULL"

\* a NULL DateTime column (time stamps are numbers)
NoTime == -1

\* no content id (ids start at 1)
NoContent == 0

Statuses ==
    {"DRAFT", "PENDING_APPROVAL", "APPROVED", "REJECTED", "RETRYING",
     "SCHEDULED", "PUBLISHED", "FAILED"}

\* platforms _publish_content knows how to post to
Platforms == {"facebook", "instagram", "linkedin"}

\* rejection feedback a caller may send ("" stands for an absent reason)
ReasonInputs == {"", "too salesy"}

----------------------------------------------------------------------------
\* Helpers

Range(s) == {s[i] : i \in 1..Len(s)}

\* a background task that returned is gone
Remove(s, t) == SubSeq(s, 1, t - 1) \o SubSeq(s, t + 1, Len(s))

\* the text of an exception or a fixed message; only publish errors name a
\* platform
ErrText == <<[platform |-> "none", err |-> "error text"]>>

\* SQLAlchemy flush: an attribute is written only when the value set on the
\* object differs from the value the session loaded / last committed.
Flush(dbValue, sessionValue, newValue) ==
    IF newValue = sessionValue THEN dbValue ELSE newValue

ErrEntry(p, e) == [platform |-> p, err |-> e]

\* Content(...) as the intake routes construct it (status=DRAFT, column
\* defaults).  published_at is NoTime or a time stamp: 0 is a time at least
\* thirty days before the modelled period, k > 0 a time within it.
\* recycled_from is the original named in the notes of a recycled item.
NewContent(platforms, media) ==
    [status            |-> "DRAFT",
     retry_count       |-> 0,
     rejection_reason  |-> NULL,
     error_message     |-> <<>>,
     platform_post_ids |-> {},
     published_at      |-> NoTime,
     scheduled_at      |-> NULL,
     media_urls        |-> media,
     platforms         |-> platforms,
     recycled_from     |-> NoContent]

\* datetime.utcnow() read after the stamp already stored, if any
UtcNow(published_at) == IF published_at = NoTime THEN 1 ELSE published_at + 1

\* email.py send_email: an unconfigured or failing SMTP delivery is caught
\* and reported as False; the call itself never raises
SendEmailRaising(delivered) == IF delivered THEN "sent" ELSE "raised"
SendEmail(delivered) == IF delivered THEN "sent" ELSE "not sent"

SetContent(id, rec) == [contents EXCEPT ![id] = rec]

\* one more review request is served, while the model's budget lasts
Served ==
    /\ budget > 0
    /\ budget' = budget - 1

\* the quota pre-check every intake route repeats
QuotaReachedAbove(c) == c.posts_this_month > c.monthly_post_limit
QuotaReached(c) == c.posts_this_month >= c.monthly_post_limit

----------------------------------------------------------------------------
\* Intake: POST /intake/{token}/submit

\* a generation job: kind "intake" is generate_and_process_content, kind
\* "webhook" is _generate_and_notify (which runs _generate_content)
NewGenTask(kind, id, auto_post) ==
    [kind |-> kind, content_id |-> id, auto_post |-> auto_post,
     team_email |-> FALSE,
     pc |-> "queued", loaded_status |-> NULL, loaded_posts |-> 0]

\* accepted: creates the Draft row and starts generate_and_process_content
SubmitContent(auto_post) ==
    /\ Len(contents) < MaxContents
    /\ ~QuotaReached(client)
    /\ contents' = Append(contents, NewContent(client.platforms_enabled, FALSE))
    /\ genTasks' = Append(genTasks,
           NewGenTask("intake", Len(contents) + 1,
                      auto_post \/ client.auto_post))
    /\ UNCHANGED <<client, regenTasks, pubTasks, budget, denied, mail, sweeps, approving>>

\* refused with HTTP 400 "monthly post limit"
SubmitDenied ==
    /\ denied < MaxContents
    /\ QuotaReached(client)
    /\ denied' = denied + 1
    /\ UNCHANGED <<client, contents, genTasks, regenTasks, pubTasks, budget, mail,
                   sweeps, approving>>

----------------------------------------------------------------------------
\* Webhook: POST /webhook/content-intake

\* the platform lists classify_platforms returns for the payloads modelled:
\* an explicit "facebook", or the fallback to every supported platform
WebhookPlatforms == {{"facebook"}, Platforms}

\* creates the Draft row and starts _generate_and_notify; the handler does
\* not read the client's quota fields.  team_email: whether the deployment
\* has settings.TEAM_APPROVAL_EMAIL set (None by default).
WebhookIntake(platforms, media, team_email) ==
    /\ Len(contents) < MaxContents
    /\ contents' = Append(contents, NewContent(platforms, media))
    /\ genTasks' = Append(genTasks,
           [NewGenTask("webhook", Len(contents) + 1, FALSE) EXCEPT
               !.team_email = team_email])
    /\ UNCHANGED <<client, regenTasks, pubTasks, budget, denied, mail, sweeps, approving>>

----------------------------------------------------------------------------
\* generate_and_process_content and _generate_content (background tasks)

\* loads the content and the client rows, then awaits the generator
GenStart(t) ==
    /\ genTasks[t].pc = "queued"
    /\ genTasks' = [genTasks EXCEPT
           ![t].pc = "running",
           ![t].loaded_status = contents[genTasks[t].content_id].status,
           ![t].loaded_posts = client.posts_this_month]
    /\ UNCHANGED <<client, contents, regenTasks, pubTasks, budget, denied, mail,
                   sweeps, approving>>

\* the except branch: status = FAILED, error_message = str(e), commit
GenFailed(c, sessionStatus) ==
    [c EXCEPT !.status = Flush(c.status, sessionStatus, "FAILED"),
              !.error_message = ErrText]

\* whether a notification follows the generation: the intake job mails the
\* owner after a success unless auto_post is set; the webhook job mails the
\* team address after _generate_content returned, whatever its outcome
GenNotifies(task, ok) ==
    IF task.kind = "intake"
    THEN ok /\ ~task.auto_post /\ client.owner_email
    ELSE task.team_email

\* the generator returned (ok) or raised.  Both jobs write PENDING_APPROVAL
\* on success; only the intake job increments posts_this_month.
GenFinish(t, ok) ==
    LET task == genTasks[t]
        id   == task.content_id
        c    == contents[id]
    IN
    /\ task.pc = "running"
    /\ IF ok
       THEN /\ contents' = SetContent(id,
                  [c EXCEPT !.status =
                       Flush(c.status, task.loaded_status, "PENDING_APPROVAL")])
            /\ client' = IF task.kind = "intake"
                         THEN [client EXCEPT
                                  !.posts_this_month = task.loaded_posts + 1]
                         ELSE client
       ELSE /\ contents' = SetContent(id, GenFailed(c, task.loaded_status))
            /\ client' = client
    /\ genTasks' = IF GenNotifies(task, ok)
                    THEN [genTasks EXCEPT
                             ![t].pc = "notify",
                             ![t].loaded_status =
                                 IF ok THEN "PENDING_APPROVAL" ELSE "FAILED"]
                    ELSE Remove(genTasks, t)
    /\ UNCHANGED <<regenTasks, pubTasks, budget, denied, mail, sweeps, approving>>

\* notify_content_ready_for_review.  The intake job awaits it inside the try
\* block whose except branch marks the content FAILED; the webhook job wraps
\* it in its own try/except.
GenNotify(t, delivered) ==
    LET task == genTasks[t]
        id   == task.content_id
        c    == contents[id]
        sent == SendEmail(delivered)
    IN
    /\ task.pc = "notify"
    /\ mail' = sent
    /\ contents' = IF sent = "raised" /\ task.kind = "intake"
                   THEN SetContent(id, GenFailed(c, task.loaded_status))
                   ELSE contents
    /\ genTasks' = Remove(genTasks, t)
    /\ UNCHANGED <<client, regenTasks, pubTasks, budget, denied, sweeps, approving>>

----------------------------------------------------------------------------
\* POST /admin/content/{id}/approve (approve_content_htmx)

AdminApprove(id) ==
    /\ Served
    /\ ~QuotaReached(client)
    /\ contents' = SetContent(id, [contents[id] EXCEPT !.status = "APPROVED"])
    /\ client' = [client EXCEPT !.posts_this_month = @ + 1]
    /\ UNCHANGED <<genTasks, regenTasks, pubTasks, denied, mail, sweeps, approving>>

----------------------------------------------------------------------------
\* Background task records

NoCalls == [p \in Platforms |-> 0]

\* a publish job: kind "social" is _publish_content (Celery task or
\* BackgroundTasks), kind "publer" is publish_approved_content
NewPubTask(kind, id) ==
    [kind |-> kind, content_id |-> id, pc |-> "queued",
     loaded_status |-> NULL, session_retry |-> 0, media |-> FALSE,
     todo |-> {}, cur |-> NULL, attempt |-> 0, calls |-> NoCalls,
     post_ids |-> {}, errors |-> <<>>]

\* a regeneration job: kind "approval" is regenerate_rejected_content,
\* kind "feedback" is regenerate_content_with_feedback(feedback=...)
NewRegenTask(kind, id, feedback) ==
    [kind |-> kind, content_id |-> id, feedback |-> feedback,
     pc |-> "queued", prompt |-> <<>>]

----------------------------------------------------------------------------
\* POST /content/{id}/approve (content.py approve_content)

ApproveContent(id) ==
    /\ Served
    /\ contents' = SetContent(id, [contents[id] EXCEPT
           !.status = "APPROVED",
           !.rejection_reason = NULL])
    /\ pubTasks' = Append(pubTasks, NewPubTask("social", id))
    /\ UNCHANGED <<client, genTasks, regenTasks, denied, mail, sweeps, approving>>

\* The same handler when the Celery worker is available: line 146 sends the
\* job to the broker while the new status is still uncommitted in the
\* handler's session
ApproveEnqueue(id) ==
    /\ Served
    /\ pubTasks' = Append(pubTasks, NewPubTask("social", id))
    /\ approving' = Append(approving,
           [content_id |-> id,
            loaded_status |-> contents[id].status,
            loaded_reason |-> contents[id].rejection_reason])
    /\ UNCHANGED <<client, contents, genTasks, regenTasks, denied, mail, sweeps>>

\* line 153: the handler commits status and rejection_reason
ApproveCommit(a) ==
    LET request == approving[a]
        id      == request.content_id
        c       == contents[id]
    IN
    /\ contents' = SetContent(id, [c EXCEPT
           !.status = Flush(c.status, request.loaded_status, "APPROVED"),
           !.rejection_reason =
               Flush(c.rejection_reason, request.loaded_reason, NULL)])
    /\ approving' = Remove(approving, a)
    /\ UNCHANGED <<client, genTasks, regenTasks, pubTasks, budget, denied, mail,
                   sweeps>>

\* GET /approval/approve?approved=true (approval.py approve_content) and
\* POST /approval/{id}/approve with approved=true (approve_content_direct,
\* direct = TRUE: also stores the schedule time, default one hour ahead)
ApproveViaLink(id, direct, scheduled_time) ==
    /\ Served
    /\ ~direct => scheduled_time = NULL
    /\ contents' = SetContent(id, [contents[id] EXCEPT
           !.status = "APPROVED",
           !.scheduled_at = IF ~direct THEN @
                            ELSE IF scheduled_time = NULL THEN "future"
                            ELSE scheduled_time])
    /\ pubTasks' = Append(pubTasks, NewPubTask("publer", id))
    /\ UNCHANGED <<client, genTasks, regenTasks, denied, mail, sweeps, approving>>

\* approval.py line 78 / 161: regeneration only while retry_count < 3
CanRegenerateTooFew(retry_count) == retry_count < MaxRegenRetries - 1
CanRegenerate(retry_count) == retry_count < MaxRegenRetries

\* "rejection_reason or 'No reason provided'"
StoredReason(reason) == IF reason = "" THEN "No reason provided" ELSE reason

\* GET /approval/approve?approved=false and POST /approval/{id}/approve with
\* approved=false: the same code in both endpoints
RejectViaLink(id, reason) ==
    LET c  == contents[id]
        rc == c.retry_count + 1
    IN
    /\ Served
    /\ contents' = SetContent(id, [c EXCEPT
           !.status = "REJECTED",
           !.rejection_reason = StoredReason(reason),
           !.retry_count = rc])
    /\ regenTasks' = IF CanRegenerate(rc)
                     THEN Append(regenTasks, NewRegenTask("approval", id, NULL))
                     ELSE regenTasks
    /\ UNCHANGED <<client, genTasks, pubTasks, denied, mail, sweeps, approving>>

\* POST /content/{id}/reject (content.py reject_content); the schema
\* requires a reason of at least 10 characters
RejectContent(id, reason, regenerate) ==
    LET c == contents[id] IN
    /\ Served
    /\ reason # ""
    /\ contents' = SetContent(id, [c EXCEPT
           !.status = "REJECTED",
           !.rejection_reason = reason,
           !.retry_count = @ + 1])
    /\ regenTasks' = IF regenerate
                     THEN Append(regenTasks, NewRegenTask("feedback", id, reason))
                     ELSE regenTasks
    /\ UNCHANGED <<client, genTasks, pubTasks, denied, mail, sweeps, approving>>

\* POST /admin/content/{id}/reject
AdminReject(id) ==
    /\ Served
    /\ contents' = SetContent(id, [contents[id] EXCEPT
           !.status = "FAILED",
           !.error_message = ErrText])
    /\ UNCHANGED <<client, genTasks, regenTasks, pubTasks, denied, mail, sweeps, approving>>

\* POST /admin/content/{id}/schedule
ScheduleContent(id, scheduled_at) ==
    /\ Served
    /\ scheduled_at # NULL
    /\ contents' = SetContent(id, [contents[id] EXCEPT
           !.scheduled_at = scheduled_at,
           !.status = "SCHEDULED"])
    /\ UNCHANGED <<client, genTasks, regenTasks, pubTasks, denied, mail, sweeps, approving>>

\* POST /admin/content/{id}/publish-now
PublishContentNow(id) ==
    /\ Served
    /\ contents' = SetContent(id, [contents[id] EXCEPT
           !.scheduled_at = "now",
           !.status = "SCHEDULED"])
    /\ UNCHANGED <<client, genTasks, regenTasks, pubTasks, denied, mail, sweeps, approving>>

\* PATCH /content/{id} with a status field (ContentUpdate.status)
UpdateContent(id, status) ==
    /\ Served
    /\ contents' = SetContent(id, [contents[id] EXCEPT !.status = status])
    /\ UNCHANGED <<client, genTasks, regenTasks, pubTasks, denied, mail, sweeps, approving>>

----------------------------------------------------------------------------
\* regenerate_rejected_content / regenerate_content_with_feedback

\* marks the row RETRYING, commits, and calls the generator with notes that
\* quote the feedback
RegenStart(t) ==
    LET task == regenTasks[t]
        id   == task.content_id
        c    == contents[id]
    IN
    /\ task.pc = "queued"
    /\ contents' = SetContent(id, [c EXCEPT !.status = "RETRYING"])
    /\ regenTasks' = [regenTasks EXCEPT
           ![t].pc = "running",
           ![t].prompt = IF task.kind = "approval"
                         THEN <<c.rejection_reason>>
                         ELSE <<task.feedback>>]
    /\ UNCHANGED <<client, genTasks, pubTasks, budget, denied, mail, sweeps, approving>>

RegenFinish(t, ok) ==
    LET task == regenTasks[t]
        id   == task.content_id
        c    == contents[id]
    IN
    /\ task.pc = "running"
    /\ contents' = SetContent(id,
           IF ok
           THEN [c EXCEPT !.status =
                     Flush(c.status, "RETRYING", "PENDING_APPROVAL")]
           ELSE [c EXCEPT
                     !.status = Flush(c.status, "RETRYING", "FAILED"),
                     !.error_message = ErrText])
    /\ regenTasks' = Remove(regenTasks, t)
    /\ UNCHANGED <<client, genTasks, pubTasks, budget, denied, mail, sweeps, approving>>

----------------------------------------------------------------------------
\* _publish_content: the publish fan-out

\* posting_tasks.py line 111: Instagram needs media, checked before the call
ValidationErrorNever(platform, media) == FALSE
ValidationError(platform, media) == platform = "instagram" /\ ~media

\* posting_tasks.py line 184, "if post_ids:": some platform returned a post
HasPostIdsAlways(post_ids) == TRUE
HasPostIds(post_ids) == post_ids # {}

\* posting_tasks.py lines 184-189: the aggregate status of a run
AggregateAllOrNothing(post_ids, errors) ==
    IF post_ids # {} /\ errors = <<>> THEN "PUBLISHED" ELSE "FAILED"
AggregateStatus(post_ids, errors) ==
    IF HasPostIds(post_ids) THEN "PUBLISHED" ELSE "FAILED"

\* posting_tasks.py line 37: only APPROVED content is published
ReadyForPublishingAlways(status) == TRUE
ReadyForPublishing(status) == status = "APPROVED"

\* loads the content; returns at once unless it is APPROVED; otherwise loads
\* the client's active platform configs and starts the loop over them
PubStart(t) ==
    LET task == pubTasks[t]
        c    == contents[task.content_id]
    IN
    /\ task.kind = "social"
    /\ task.pc = "queued"
    /\ pubTasks' =
           IF ~ReadyForPublishing(c.status)
           THEN Remove(pubTasks, t)
           ELSE [pubTasks EXCEPT ![t] = [task EXCEPT
                    !.pc = "running",
                    !.loaded_status = c.status,
                    !.session_retry = c.retry_count,
                    !.media = c.media_urls,
                    !.todo = client.platform_configs \cap c.platforms]]
    /\ UNCHANGED <<client, contents, genTasks, regenTasks, budget, denied, mail, sweeps, approving>>

\* the platform the loop is at: the one being retried, or any remaining one
\* (the configs are selected without an ORDER BY)
PubAt(task, p) ==
    /\ task.kind = "social"
    /\ task.pc = "running"
    /\ IF task.cur = NULL THEN p \in task.todo ELSE p = task.cur

PubAttemptNo(task) == IF task.cur = NULL THEN 1 ELSE task.attempt

PubNextPlatform(task, p) ==
    [task EXCEPT !.todo = @ \ {p}, !.cur = NULL, !.attempt = 0]

\* Instagram without media: the error is recorded and the retry loop left
\* before any call is made
PubValidationFail(t, p) ==
    LET task == pubTasks[t] IN
    /\ PubAt(task, p)
    /\ ValidationError(p, task.media)
    /\ pubTasks' = [pubTasks EXCEPT ![t] =
           [PubNextPlatform(task, p) EXCEPT
               !.errors = Append(@, ErrEntry(p, "validation"))]]
    /\ UNCHANGED <<client, contents, genTasks, regenTasks, budget, denied, mail, sweeps, approving>>

\* posting_tasks.py line 153: a failed attempt is followed by another one
RetryAgainOnceMore(attempt) == attempt < MAX_RETRY_ATTEMPTS + 1
RetryAgain(attempt) == attempt < MAX_RETRY_ATTEMPTS

\* one attempt of the platform call: it returns (ok) or raises.  A failure
\* stores the attempt number in retry_count and commits; the last failure
\* records the platform's error and sends the retry-limit notification to
\* the owner, inside a try/except of its own (delivered: whether the mail
\* went out).
PubAttempt(t, p, ok, delivered) ==
    LET task == pubTasks[t]
        id   == task.content_id
        c    == contents[id]
        n    == PubAttemptNo(task)
        called == [task EXCEPT !.calls[p] = @ + 1]
    IN
    /\ PubAt(task, p)
    /\ ~ValidationError(p, task.media)
    /\ IF ok
       THEN /\ pubTasks' = [pubTasks EXCEPT ![t] =
                  [PubNextPlatform(called, p) EXCEPT !.post_ids = @ \cup {p}]]
            /\ contents' = contents
            /\ mail' = mail
       ELSE /\ contents' = SetContent(id, [c EXCEPT
                  !.retry_count = Flush(c.retry_count, task.session_retry, n)])
            /\ pubTasks' = [pubTasks EXCEPT ![t] =
                  IF RetryAgain(n)
                  THEN [called EXCEPT !.cur = p, !.attempt = n + 1,
                                      !.session_retry = n]
                  ELSE [PubNextPlatform(called, p) EXCEPT
                           !.session_retry = n,
                           !.errors = Append(@, ErrEntry(p, "exception"))]]
            /\ mail' = IF ~RetryAgain(n) /\ client.owner_email
                       THEN SendEmail(delivered)
                       ELSE mail
    /\ UNCHANGED <<client, genTasks, regenTasks, budget, denied, sweeps, approving>>

\* after the loop: the aggregate outcome is written and committed
PubFinish(t) ==
    LET task == pubTasks[t]
        id   == task.content_id
        c    == contents[id]
        st   == AggregateStatus(task.post_ids, task.errors)
    IN
    /\ task.kind = "social"
    /\ task.pc = "running"
    /\ task.todo = {}
    /\ task.cur = NULL
    /\ contents' = SetContent(id, [c EXCEPT
           !.status = st,
           !.platform_post_ids =
               IF HasPostIds(task.post_ids) THEN task.post_ids ELSE @,
           !.published_at = IF HasPostIds(task.post_ids) THEN UtcNow(@) ELSE @,
           !.error_message = IF task.errors # <<>> THEN task.errors ELSE @])
    /\ pubTasks' = Remove(pubTasks, t)
    /\ UNCHANGED <<client, genTasks, regenTasks, budget, denied, mail, sweeps, approving>>

----------------------------------------------------------------------------
\* publish_approved_content: scheduling through Publer

\* loads content and client; fails at once without Publer accounts or
\* without any platform to post to, otherwise awaits schedule_post
PublerStart(t) ==
    LET task == pubTasks[t]
        id   == task.content_id
        c    == contents[id]
    IN
    /\ task.kind = "publer"
    /\ task.pc = "queued"
    /\ IF ~client.publer_accounts
       THEN /\ contents' = SetContent(id, [c EXCEPT
                  !.status = "FAILED",
                  !.error_message = ErrText])
            /\ pubTasks' = Remove(pubTasks, t)
       ELSE IF c.platforms = {}
       THEN /\ contents' = SetContent(id, [c EXCEPT
                  !.status = "FAILED",
                  !.error_message = ErrText])
            /\ pubTasks' = Remove(pubTasks, t)
       ELSE /\ contents' = contents
            /\ pubTasks' = [pubTasks EXCEPT
                  ![t].pc = "running", ![t].loaded_status = c.status,
                  ![t].todo = c.platforms]
    /\ UNCHANGED <<client, genTasks, regenTasks, budget, denied, mail, sweeps, approving>>

\* schedule_post returned success with the post ids, returned an error
\* status, or raised
PublerFinish(t, result) ==
    LET task == pubTasks[t]
        id   == task.content_id
        c    == contents[id]
    IN
    /\ task.kind = "publer"
    /\ task.pc = "running"
    /\ contents' = SetContent(id,
           IF result = "success"
           THEN [c EXCEPT
                    !.status = Flush(c.status, task.loaded_status, "SCHEDULED"),
                    !.platform_post_ids = task.todo]
           ELSE [c EXCEPT
                    !.status = Flush(c.status, task.loaded_status, "FAILED"),
                    !.error_message = ErrText])
    /\ pubTasks' = Remove(pubTasks, t)
    /\ UNCHANGED <<client, genTasks, regenTasks, budget, denied, mail, sweeps, approving>>

----------------------------------------------------------------------------
\* run_daily_recycling: the recycling sweep

\* the WHERE clause of find_recyclable_content
IsRecyclable(c) ==
    /\ c.status = "PUBLISHED"
    /\ c.published_at # NoTime
    /\ c.published_at <= 0
    /\ c.error_message = <<>>
    /\ client.is_active

RecyclableIds == {id \in 1..Len(contents) : IsRecyclable(contents[id])}

\* every order in which the rows of a set can be listed
Orderings(S) ==
    {order \in [1..Cardinality(S) -> S] :
        \A i, j \in 1..Cardinality(S) : i # j => order[i] # order[j]}

\* the lists find_recyclable_content can return: each matching content row
\* once (every content has one client), in an order the query leaves open
FindRecyclableRepeating == {order \o order : order \in Orderings(RecyclableIds)}
FindRecyclable == Orderings(RecyclableIds)

NewSweep(recyclable) ==
    [pc |-> IF recyclable = <<>> THEN "done" ELSE "idle",
     todo |-> recyclable, original |-> NoContent,
     loaded_posts |-> 0, loaded_auto |-> FALSE, created |-> <<>>,
     skipped |-> <<>>]

\* the loop of run_daily_recycling moves on to the next list element
SweepNext(sweep) ==
    [sweep EXCEPT !.todo = Tail(@), !.original = NoContent,
                  !.pc = IF Tail(sweep.todo) = <<>> THEN "done" ELSE "idle"]

\* run_daily_recycling is invoked and queries the recyclable content
SweepStart ==
    /\ Len(sweeps) < MaxSweeps
    /\ \E recyclable \in FindRecyclable :
           sweeps' = Append(sweeps, NewSweep(recyclable))
    /\ UNCHANGED <<client, contents, genTasks, regenTasks, pubTasks, budget,
                   denied, mail, approving>>

\* recycle_content(original_content_id) up to the generator call: loads the
\* original and the client and returns None at once when the client is
\* inactive or at its monthly limit (skipped: the originals for which it
\* printed the warning and returned None)
RecycleStart(s) ==
    LET sweep == sweeps[s] IN
    /\ sweep.pc = "idle"
    /\ sweeps' = [sweeps EXCEPT ![s] =
           IF ~client.is_active \/ QuotaReached(client)
           THEN [SweepNext(sweep) EXCEPT
                    !.skipped = Append(@, Head(sweep.todo))]
           ELSE [sweep EXCEPT
                    !.pc = "generating",
                    !.original = Head(sweep.todo),
                    !.loaded_posts = client.posts_this_month,
                    !.loaded_auto = client.auto_post]]
    /\ UNCHANGED <<client, contents, genTasks, regenTasks, pubTasks, budget,
                   denied, mail, approving>>

\* the recycled row recycle_content inserts
RecycledContent(original_id, auto_post) ==
    [NewContent(contents[original_id].platforms,
                contents[original_id].media_urls) EXCEPT
        !.status = IF auto_post THEN "APPROVED" ELSE "PENDING_APPROVAL",
        !.recycled_from = original_id]

\* the generator returned (ok): the new row is inserted and the counter
\* incremented in one commit; or it raised: recycle_content returns None
RecycleFinish(s, ok) ==
    LET sweep == sweeps[s]
        new_id == Len(contents) + 1
    IN
    /\ sweep.pc = "generating"
    /\ IF ok
       THEN /\ contents' = Append(contents,
                  RecycledContent(sweep.original, sweep.loaded_auto))
            /\ client' = [client EXCEPT
                  !.posts_this_month = sweep.loaded_posts + 1]
            /\ sweeps' = [sweeps EXCEPT ![s] =
                  [SweepNext(sweep) EXCEPT !.created = Append(@,
                      [original |-> sweep.original, new_id |-> new_id])]]
       ELSE /\ UNCHANGED <<contents, client>>
            /\ sweeps' = [sweeps EXCEPT ![s] = SweepNext(sweep)]
    /\ UNCHANGED <<genTasks, regenTasks, pubTasks, budget, denied, mail, approving>>

----------------------------------------------------------------------------
\* Quota specification: one client, concurrent submissions

InitClient(limit, auto, email, configs, publer) ==
    [monthly_post_limit |-> limit,
     posts_this_month   |-> 0,
     is_active          |-> TRUE,
     auto_post          |-> auto,
     owner_email        |-> email,
     platforms_enabled  |-> {"facebook"},
     platform_configs   |-> configs,
     publer_accounts    |-> publer]

InitQuota ==
    /\ \E limit \in 1..MaxLimit, auto \in BOOLEAN, email \in BOOLEAN :
           client = InitClient(limit, auto, email, {"facebook"}, TRUE)
    /\ contents = <<>>
    /\ genTasks = <<>>
    /\ regenTasks = <<>>
    /\ pubTasks = <<>>
    /\ budget = MaxRequests
    /\ denied = 0
    /\ mail = "none"
    /\ sweeps = <<>>
    /\ approving = <<>>

NextQuota ==
    \/ \E a \in BOOLEAN : SubmitContent(a)
    \/ SubmitDenied
    \/ \E platforms \in WebhookPlatforms, team_email \in BOOLEAN :
          WebhookIntake(platforms, FALSE, team_email)
    \/ \E t \in 1..Len(genTasks) : GenStart(t)
    \/ \E t \in 1..Len(genTasks), ok \in BOOLEAN : GenFinish(t, ok)
    \/ \E t \in 1..Len(genTasks), ok \in BOOLEAN : GenNotify(t, ok)
    \/ \E id \in 1..Len(contents) : AdminApprove(id)

SpecQuota == InitQuota /\ [][NextQuota]_vars

----------------------------------------------------------------------------
\* Lifecycle specification: one submitted content item and every operation
\* that can act on it

FirstGenTask(auto_post) == NewGenTask("intake", 1, auto_post)

\* the state right after one accepted submission
Init ==
    /\ \E email \in BOOLEAN, publer \in BOOLEAN :
           client = InitClient(MaxLimit, FALSE, email,
                               {"facebook", "instagram"}, publer)
    /\ contents = <<NewContent({"facebook", "instagram"}, FALSE)>>
    /\ genTasks = <<FirstGenTask(FALSE)>>
    /\ regenTasks = <<>>
    /\ pubTasks = <<>>
    /\ budget = MaxRequests
    /\ denied = 0
    /\ mail = "none"
    /\ sweeps = <<>>
    /\ approving = <<>>

ScheduleTimes == {"now", "future"}

Next ==
    \/ \E t \in 1..Len(genTasks) : GenStart(t)
    \/ \E t \in 1..Len(genTasks), ok \in BOOLEAN : GenFinish(t, ok)
    \/ \E t \in 1..Len(genTasks), ok \in BOOLEAN : GenNotify(t, ok)
    \/ \E id \in 1..Len(contents) : AdminApprove(id)
    \/ \E id \in 1..Len(contents) : ApproveContent(id)
    \/ \E id \in 1..Len(contents) : ApproveEnqueue(id)
    \/ \E a \in 1..Len(approving) : ApproveCommit(a)
    \/ \E id \in 1..Len(contents), direct \in BOOLEAN,
          st \in ScheduleTimes \cup {NULL} : ApproveViaLink(id, direct, st)
    \/ \E id \in 1..Len(contents), r \in ReasonInputs : RejectViaLink(id, r)
    \/ \E id \in 1..Len(contents), r \in ReasonInputs, g \in BOOLEAN :
          RejectContent(id, r, g)
    \/ \E id \in 1..Len(contents) : AdminReject(id)
    \/ \E id \in 1..Len(contents), st \in ScheduleTimes : ScheduleContent(id, st)
    \/ \E id \in 1..Len(contents) : PublishContentNow(id)
    \/ \E id \in 1..Len(contents), s \in Statuses : UpdateContent(id, s)
    \/ \E t \in 1..Len(regenTasks) : RegenStart(t)
    \/ \E t \in 1..Len(regenTasks), ok \in BOOLEAN : RegenFinish(t, ok)
    \/ \E t \in 1..Len(pubTasks) : PubStart(t)
    \/ \E t \in 1..Len(pubTasks), p \in Platforms : PubValidationFail(t, p)
    \/ \E t \in 1..Len(pubTasks), p \in Platforms, ok \in BOOLEAN,
          delivered \in BOOLEAN : PubAttempt(t, p, ok, delivered)
    \/ \E t \in 1..Len(pubTasks) : PubFinish(t)
    \/ \E t \in 1..Len(pubTasks) : PublerStart(t)
    \/ \E t \in 1..Len(pubTasks),
          result \in {"success", "error", "exception"} : PublerFinish(t, result)

Spec == Init /\ [][Next]_vars

----------------------------------------------------------------------------
\* Review specification: one submitted content item under repeated
\* rejections, with its generation and regenerations in the background

InitReview ==
    /\ \E email \in BOOLEAN :
           client = InitClient(MaxLimit, FALSE, email, {"facebook"}, TRUE)
    /\ contents = <<NewContent({"facebook"}, FALSE)>>
    /\ genTasks = <<FirstGenTask(FALSE)>>
    /\ regenTasks = <<>>
    /\ pubTasks = <<>>
    /\ budget = MaxRejects
    /\ denied = 0
    /\ mail = "none"
    /\ sweeps = <<>>
    /\ approving = <<>>

NextReview ==
    \/ \E t \in 1..Len(genTasks) : GenStart(t)
    \/ \E t \in 1..Len(genTasks), ok \in BOOLEAN : GenFinish(t, ok)
    \/ \E t \in 1..Len(genTasks), ok \in BOOLEAN : GenNotify(t, ok)
    \/ \E id \in 1..Len(contents), r \in ReasonInputs : RejectViaLink(id, r)
    \/ \E id \in 1..Len(contents), r \in ReasonInputs, g \in BOOLEAN :
          RejectContent(id, r, g)
    \/ \E t \in 1..Len(regenTasks) : RegenStart(t)
    \/ \E t \in 1..Len(regenTasks), ok \in BOOLEAN : RegenFinish(t, ok)

SpecReview == InitReview /\ [][NextReview]_vars

----------------------------------------------------------------------------
\* Fan-out specification: one approved content item with its publish job
\* enqueued, over every choice of target platforms, configs and media

InitFanOut ==
    /\ \E configs \in SUBSET Platforms, publer \in BOOLEAN :
           client = InitClient(MaxLimit, FALSE, TRUE, configs, publer)
    /\ \E platforms \in SUBSET Platforms, media \in BOOLEAN :
           contents = <<[NewContent(platforms, media) EXCEPT
                            !.status = "APPROVED"]>>
    /\ genTasks = <<>>
    /\ regenTasks = <<>>
    /\ \E kind \in {"social", "publer"} : pubTasks = <<NewPubTask(kind, 1)>>
    /\ budget = 0
    /\ denied = 0
    /\ mail = "none"
    /\ sweeps = <<>>
    /\ approving = <<>>

NextFanOut ==
    \/ \E t \in 1..Len(pubTasks) : PubStart(t)
    \/ \E t \in 1..Len(pubTasks), p \in Platforms : PubValidationFail(t, p)
    \/ \E t \in 1..Len(pubTasks), p \in Platforms, ok \in BOOLEAN,
          delivered \in BOOLEAN : PubAttempt(t, p, ok, delivered)
    \/ \E t \in 1..Len(pubTasks) : PubFinish(t)
    \/ \E t \in 1..Len(pubTasks) : PublerStart(t)
    \/ \E t \in 1..Len(pubTasks),
          result \in {"success", "error", "exception"} : PublerFinish(t, result)

SpecFanOut == InitFanOut /\ [][NextFanOut]_vars

\* the same under the workers' scheduling: a queued or running job always
\* takes its next step (each platform call returns or raises)
SpecFanOutFair == InitFanOut /\ [][NextFanOut]_vars /\ WF_vars(NextFanOut)

----------------------------------------------------------------------------
\* Run specification: one run of _publish_content on a content item in any
\* status, over every choice of target platforms, configs and media, under
\* the worker's scheduling

InitRun ==
    /\ \E configs \in SUBSET Platforms :
           client = InitClient(MaxLimit, FALSE, TRUE, configs, FALSE)
    /\ \E platforms \in SUBSET Platforms, media \in BOOLEAN,
          status \in Statuses :
           contents = <<[NewContent(platforms, media) EXCEPT
                            !.status = status]>>
    /\ genTasks = <<>>
    /\ regenTasks = <<>>
    /\ pubTasks = <<NewPubTask("social", 1)>>
    /\ budget = 0
    /\ denied = 0
    /\ mail = "none"
    /\ sweeps = <<>>
    /\ approving = <<>>

NextRun ==
    \/ \E t \in 1..Len(pubTasks) : PubStart(t)
    \/ \E t \in 1..Len(pubTasks), p \in Platforms : PubValidationFail(t, p)
    \/ \E t \in 1..Len(pubTasks), p \in Platforms, ok \in BOOLEAN,
          delivered \in BOOLEAN : PubAttempt(t, p, ok, delivered)
    \/ \E t \in 1..Len(pubTasks) : PubFinish(t)

\* the job always takes its next step: each platform call returns or raises
SpecRun == InitRun /\ [][NextRun]_vars /\ WF_vars(NextRun)

----------------------------------------------------------------------------
\* Notification specification: one submitted content item, its generation,
\* approvals through POST /content/{id}/approve and the publish runs they
\* start, with every delivery outcome of the notification emails

InitNotify ==
    /\ \E email \in BOOLEAN :
           client = InitClient(MaxLimit, FALSE, email, {"facebook"}, FALSE)
    /\ contents = <<NewContent({"facebook"}, FALSE)>>
    /\ \E auto_post \in BOOLEAN, team_email \in BOOLEAN :
           \/ genTasks = <<NewGenTask("intake", 1, auto_post)>>
           \/ genTasks = <<[NewGenTask("webhook", 1, FALSE) EXCEPT
                               !.team_email = team_email]>>
    /\ regenTasks = <<>>
    /\ pubTasks = <<>>
    /\ budget = MaxApprovals
    /\ denied = 0
    /\ mail = "none"
    /\ sweeps = <<>>
    /\ approving = <<>>

NextNotify ==
    \/ \E t \in 1..Len(genTasks) : GenStart(t)
    \/ \E t \in 1..Len(genTasks), ok \in BOOLEAN : GenFinish(t, ok)
    \/ \E t \in 1..Len(genTasks), delivered \in BOOLEAN :
          GenNotify(t, delivered)
    \/ \E id \in 1..Len(contents) : ApproveContent(id)
    \/ \E id \in 1..Len(contents) : ApproveEnqueue(id)
    \/ \E a \in 1..Len(approving) : ApproveCommit(a)
    \/ \E t \in 1..Len(pubTasks) : PubStart(t)
    \/ \E t \in 1..Len(pubTasks), p \in Platforms, ok \in BOOLEAN,
          delivered \in BOOLEAN : PubAttempt(t, p, ok, delivered)
    \/ \E t \in 1..Len(pubTasks) : PubFinish(t)

SpecNotify == InitNotify /\ [][NextNotify]_vars

----------------------------------------------------------------------------
\* Approval specification: one generated content item waiting for review,
\* approvals through POST /content/{id}/approve on either path of the
\* handler, and the publish runs they enqueue

InitApprove ==
    /\ client = InitClient(MaxLimit, FALSE, FALSE, {"facebook", "linkedin"}, FALSE)
    /\ contents = <<[NewContent({"facebook", "linkedin"}, FALSE) EXCEPT
                        !.status = "PENDING_APPROVAL"]>>
    /\ genTasks = <<>>
    /\ regenTasks = <<>>
    /\ pubTasks = <<>>
    /\ budget = MaxRequests
    /\ denied = 0
    /\ mail = "none"
    /\ sweeps = <<>>
    /\ approving = <<>>

\* the steps that need no further request: the handler's commit and the
\* steps of the publish jobs
ApproveBackground ==
    \/ \E a \in 1..Len(approving) : ApproveCommit(a)
    \/ \E t \in 1..Len(pubTasks) : PubStart(t)
    \/ \E t \in 1..Len(pubTasks), p \in Platforms, ok \in BOOLEAN,
          delivered \in BOOLEAN : PubAttempt(t, p, ok, delivered)
    \/ \E t \in 1..Len(pubTasks) : PubFinish(t)

NextApprove ==
    \/ \E id \in 1..Len(contents) : ApproveContent(id)
    \/ \E id \in 1..Len(contents) : ApproveEnqueue(id)
    \/ ApproveBackground

\* a handler that reached its commit commits, and the worker runs every
\* queued job to its end (each platform call returns or raises)
SpecApprove ==
    InitApprove /\ [][NextApprove]_vars /\ WF_vars(ApproveBackground)

----------------------------------------------------------------------------
\* Recycling specification: published originals of one client and
\* invocations of the daily recycling sweep, which may overlap

\* a row that was published to facebook at the given time
PublishedRow(published_at, errors) ==
    [NewContent({"facebook"}, FALSE) EXCEPT
        !.status = "PUBLISHED",
        !.platform_post_ids = {"facebook"},
        !.published_at = published_at,
        !.error_message = errors]

\* the contents table at the start: two items published long ago, one
\* published long ago with a platform error recorded, one published recently
OriginalRows ==
    <<PublishedRow(0, <<>>),
      PublishedRow(0, <<ErrEntry("instagram", "validation")>>),
      PublishedRow(0, <<>>),
      PublishedRow(1, <<>>)>>

InitRecycle ==
    /\ \E limit \in 1..MaxLimit, auto \in BOOLEAN :
           client = InitClient(limit, auto, TRUE, {"facebook"}, FALSE)
    /\ contents = OriginalRows
    /\ genTasks = <<>>
    /\ regenTasks = <<>>
    /\ pubTasks = <<>>
    /\ budget = 0
    /\ denied = 0
    /\ mail = "none"
    /\ sweeps = <<>>
    /\ approving = <<>>

NextRecycle ==
    \/ SweepStart
    \/ \E s \in 1..Len(sweeps) : RecycleStart(s)
    \/ \E s \in 1..Len(sweeps), ok \in BOOLEAN : RecycleFinish(s, ok)

SpecRecycle == InitRecycle /\ [][NextRecycle]_vars

----------------------------------------------------------------------------
\* Properties

ContentIds == 1..Len(contents)

\* C1: for every client and every interleaving of concurrent submissions,
\* posts_this_month never exceeds monthly_post_limit.
C1_QuotaNeverExceeded ==
    client.posts_this_month <= client.monthly_post_limit

\* the transition table of the content state machine
TransitionTable ==
    {<<"DRAFT", "PENDING_APPROVAL">>, <<"DRAFT", "APPROVED">>,
     <<"DRAFT", "FAILED">>, <<"PENDING_APPROVAL", "FAILED">>,
     <<"APPROVED", "FAILED">>,
     <<"PENDING_APPROVAL", "APPROVED">>,
     <<"PENDING_APPROVAL", "REJECTED">>, <<"APPROVED", "REJECTED">>,
     <<"REJECTED", "RETRYING">>,
     <<"RETRYING", "PENDING_APPROVAL">>, <<"RETRYING", "FAILED">>,
     <<"APPROVED", "SCHEDULED">>, <<"APPROVED", "PUBLISHED">>,
     <<"SCHEDULED", "PUBLISHED">>, <<"SCHEDULED", "FAILED">>}

\* C2: every status change of every content item is a transition of the
\* table; no status change outside the table ever occurs.
C2_OnlyTableTransitions ==
    [][\A id \in ContentIds :
          contents'[id].status # contents[id].status
          => <<contents[id].status, contents'[id].status>> \in TransitionTable]_vars

\* C3: in every reachable state every content's retry_count is at most
\* max_retries (3).
C3_RetryCountWithinCap ==
    \A id \in ContentIds : contents[id].retry_count <= MaxRegenRetries

\* a step in which content id is rejected (status REJECTED, one more retry)
IsRejectStep(id) ==
    /\ contents'[id].status = "REJECTED"
    /\ contents'[id].retry_count = contents[id].retry_count + 1

\* the platforms a run on content id publishes to
Targets(id) == client.platform_configs \cap contents[id].platforms

\* the platforms of a run that failed every one of their attempts
Exhausted(task, id) ==
    {p \in Targets(id) :
        p \notin task.post_ids /\ task.calls[p] = MAX_RETRY_ATTEMPTS}

NamedPlatforms(error_message) ==
    {error_message[i].platform : i \in 1..Len(error_message)}

\* C4: when a fan-out ends with at least one platform succeeded and every
\* other target platform failed after exhausting its retries, the content
\* ends Published (not Failed), platform_post_ids holds exactly the
\* platforms that succeeded and error_message names every failed platform.
C4_PartialSuccess ==
    [][\A t \in 1..Len(pubTasks) :
          LET task == pubTasks[t]
              id   == task.content_id
          IN
          (/\ PubFinish(t)
           /\ task.post_ids # {}
           /\ Targets(id) \ task.post_ids = Exhausted(task, id))
          => /\ contents'[id].status = "PUBLISHED"
             /\ contents'[id].platform_post_ids = task.post_ids
             /\ NamedPlatforms(contents'[id].error_message)
                    = Targets(id) \ task.post_ids
             /\ Len(contents'[id].error_message)
                    = Cardinality(Targets(id) \ task.post_ids)]_vars

\* C4 witness: three targets, one published, two named as failed
C4_Witness ==
    /\ pubTasks = <<>>
    /\ Cardinality(Targets(1)) = 3
    /\ contents[1].status = "PUBLISHED"
    /\ Cardinality(contents[1].platform_post_ids) = 1
    /\ Len(contents[1].error_message) = 2
    /\ \A i \in 1..2 : contents[1].error_message[i].err = "exception"
    /\ contents[1].retry_count = MAX_RETRY_ATTEMPTS

\* C5: with monthly_post_limit = 1 and posts_this_month = 0, two concurrent
\* submissions end with exactly one accepted (one new Draft) and one refused
\* with QuotaExceeded.
C5_OneSlotOneAccepted ==
    (/\ client.monthly_post_limit = 1
     /\ client.posts_this_month = 0
     /\ Len(genTasks) = Len(contents)
     /\ Len(contents) + denied = 2)
    => (Len(contents) = 1 /\ denied = 1)

\* C6: when a Reject leaves retry_count >= max_retries, no regeneration is
\* started (the content stays Rejected and is not moved to Retrying or
\* Failed because of that rejection).
C6_NoRegenerationAtCap ==
    [][\A id \in ContentIds :
          (IsRejectStep(id) /\ contents'[id].retry_count >= MaxRegenRetries)
          => regenTasks' = regenTasks]_vars

C8_InstagramValidation ==
    [][\A t \in 1..Len(pubTasks) :
          LET task == pubTasks[t]
              id   == task.content_id
          IN
          /\ (/\ Len(pubTasks') = Len(pubTasks)
              /\ task.pc = "running"
              /\ ~task.media
              /\ "instagram" \in task.todo
              /\ "instagram" \notin pubTasks'[t].todo)
             => /\ pubTasks'[t].calls["instagram"] = 0
                /\ contents'[id].retry_count = contents[id].retry_count
                /\ pubTasks'[t].attempt = 0
                /\ "instagram" \notin pubTasks'[t].post_ids
                /\ pubTasks'[t].errors
                       = Append(task.errors, ErrEntry("instagram", "validation"))
          /\ (/\ PubFinish(t)
              /\ ~task.media
              /\ Targets(id) = {"facebook", "instagram"}
              /\ "facebook" \in task.post_ids)
             => /\ contents'[id].status = "PUBLISHED"
                /\ contents'[id].platform_post_ids = {"facebook"}
                /\ contents'[id].error_message
                       = <<ErrEntry("instagram", "validation")>>]_vars

\* C8 witness: published to facebook only, instagram named with the
\* validation error, no retry consumed
C8_Witness ==
    /\ pubTasks = <<>>
    /\ Targets(1) = {"facebook", "instagram"}
    /\ ~contents[1].media_urls
    /\ contents[1].status = "PUBLISHED"
    /\ contents[1].platform_post_ids = {"facebook"}
    /\ contents[1].error_message = <<ErrEntry("instagram", "validation")>>
    /\ contents[1].retry_count = 0

\* C9: when two drivers act on the same content from the same observed
\* status, at most one transition is applied: a publish run commits its
\* outcome only if the content still has the status the run loaded.
C9_StaleWriteRefused ==
    [][\A t \in 1..Len(pubTasks) :
          PubFinish(t)
          => contents[pubTasks[t].content_id].status
                 = pubTasks[t].loaded_status]_vars

\* C10: Approve on a content whose status is not PendingApproval is refused
\* and changes nothing: an Approve is applied only in PendingApproval.
C10_ApproveOnlyPending ==
    [][\A id \in ContentIds :
          (\/ ApproveContent(id)
           \/ AdminApprove(id)
           \/ \E direct \in BOOLEAN, st \in ScheduleTimes \cup {NULL} :
                 ApproveViaLink(id, direct, st))
          => contents[id].status = "PENDING_APPROVAL"]_vars

\* C11: on successful generation a Draft content moves to Approved when
\* auto_post is set for the submission or the client, and to PendingApproval
\* otherwise.
C11_AutoPostApproved ==
    [][\A t \in 1..Len(genTasks) :
          LET task == genTasks[t]
              id   == task.content_id
          IN
          (GenFinish(t, TRUE) /\ contents[id].status = "DRAFT")
          => contents'[id].status =
                 IF task.auto_post THEN "APPROVED" ELSE "PENDING_APPROVAL"]_vars

\* C12: with auto_post enabled for the client, as long as nobody has
\* performed an Approve, no content waits in PendingApproval.
C12_AutoPostNeverWaits ==
    (client.auto_post /\ budget = MaxRequests)
    => \A id \in ContentIds : contents[id].status # "PENDING_APPROVAL"

\* C13: a notification never changes a content's status or error_message,
\* whether it is delivered or not: the review-ready email leaves the
\* contents as they are, and the step that sends the retry-exhaustion email
\* leaves status and error_message alone and records the platform's failure
\* for the aggregate outcome.
C13_NotificationNeverGates ==
    [][/\ \A t \in 1..Len(genTasks), delivered \in BOOLEAN :
             GenNotify(t, delivered) => contents' = contents
       /\ \A t \in 1..Len(pubTasks), p \in Platforms, delivered \in BOOLEAN :
             LET task == pubTasks[t]
                 id   == task.content_id
             IN
             (/\ PubAttempt(t, p, FALSE, delivered)
              /\ PubAttemptNo(task) = MAX_RETRY_ATTEMPTS)
             => /\ contents'[id].status = contents[id].status
                /\ contents'[id].error_message = contents[id].error_message
                /\ pubTasks'[t].errors
                       = Append(task.errors, ErrEntry(p, "exception"))
                /\ pubTasks'[t].post_ids = task.post_ids]_vars

\* C13 witness: the review-ready email was not delivered and the content
\* waits in PendingApproval with no error recorded
C13_Witness ==
    /\ mail = "not sent"
    /\ client.owner_email
    /\ genTasks = <<>>
    /\ pubTasks = <<>>
    /\ budget = MaxApprovals
    /\ contents[1].status = "PENDING_APPROVAL"
    /\ contents[1].error_message = <<>>

\* C14: in every reachable state a content's published_at is set if and
\* only if its status is Scheduled or Published.
C14_PublishedAtIffPublished ==
    \A id \in ContentIds :
        (contents[id].published_at # NoTime)
        <=> (contents[id].status \in {"SCHEDULED", "PUBLISHED"})

\* C15: published_at is written at most once in a content's lifetime: once
\* it is set, no later step changes it.
C15_PublishedAtWrittenOnce ==
    [][\A id \in ContentIds :
          contents[id].published_at # NoTime
          => contents'[id].published_at = contents[id].published_at]_vars

\* the contents derived from an original by the recycling
DerivedFrom(original) ==
    {id \in ContentIds : contents[id].recycled_from = original}

\* C16: one invocation of the recycling sweep creates at most one derived
\* content item per original, also when two sweeps run on the same data:
\* the items a sweep created have pairwise different originals, and an
\* original has no more derived items than there were sweeps.
C16_OncePerSweep ==
    /\ \A s \in 1..Len(sweeps) :
          LET created == sweeps[s].created IN
          /\ \A i, j \in 1..Len(created) :
                i # j => created[i].original # created[j].original
          /\ \A i \in 1..Len(created) :
                /\ created[i].new_id \in DerivedFrom(created[i].original)
                /\ IsRecyclable(contents[created[i].original])
    /\ \A original \in ContentIds :
          Cardinality(DerivedFrom(original)) <= Len(sweeps)

\* C16 witness: two finished sweeps over the same eligible original, each
\* of which created one derived item
C16_Witness ==
    /\ Len(sweeps) = 2
    /\ \A s \in 1..2 :
          /\ sweeps[s].pc = "done"
          /\ Len(sweeps[s].created) = 1
          /\ sweeps[s].created[1].original = 3
    /\ Cardinality(DerivedFrom(3)) = 2

\* C17: every entry point that creates a content item for generation checks
\* the quota first: no content is created while posts_this_month >=
\* monthly_post_limit.
C17_QuotaCheckedAtEveryEntry ==
    [][Len(contents') > Len(contents) => ~QuotaReached(client)]_vars

C19_AttemptsBounded ==
    [][\A t \in 1..Len(pubTasks) :
          Len(pubTasks') = Len(pubTasks)
          => LET task == pubTasks[t]
                 next == pubTasks'[t]
             IN
             /\ \A p \in Platforms :
                   next.calls[p] # task.calls[p]
                   => /\ next.calls[p] = task.calls[p] + 1
                      /\ next.calls[p] <= MAX_RETRY_ATTEMPTS
                      /\ p \notin task.post_ids
             /\ \A i \in 1..Len(next.errors) :
                   next.errors[i].err = "exception"
                   => /\ next.calls[next.errors[i].platform]
                             = MAX_RETRY_ATTEMPTS
                      /\ next.errors[i].platform \notin next.post_ids]_vars

\* C19 witness: in one run a platform failed all its attempts and another
\* one succeeded on a retry
C19_Witness ==
    \E t \in 1..Len(pubTasks) :
        /\ pubTasks[t].kind = "social"
        /\ \E p \in Platforms :
              /\ pubTasks[t].calls[p] = MAX_RETRY_ATTEMPTS
              /\ p \notin pubTasks[t].post_ids
              /\ ErrEntry(p, "exception") \in Range(pubTasks[t].errors)
        /\ \E q \in pubTasks[t].post_ids :
              pubTasks[t].calls[q] = MAX_RETRY_ATTEMPTS - 1

\* C20: after a publish run in which at least one platform succeeded, the
\* content is Scheduled when its scheduled_at is in the future and Published
\* otherwise.
C20_ScheduledWhenFuture ==
    [][\A t \in 1..Len(pubTasks) :
          LET task == pubTasks[t]
              id   == task.content_id
          IN
          (PubFinish(t) /\ task.post_ids # {})
          => contents'[id].status =
                 IF contents[id].scheduled_at = "future"
                 THEN "SCHEDULED" ELSE "PUBLISHED"]_vars

\* C21: every content in SCHEDULED eventually leaves it for PUBLISHED or
\* FAILED through a publish execution; none stays in SCHEDULED forever.
C21_ScheduledEventuallyLeaves ==
    \A id \in {1} :
        (id \in ContentIds /\ contents[id].status = "SCHEDULED")
            ~> (contents[id].status \in {"PUBLISHED", "FAILED"})

\* the generator call of a generation or regeneration of content id is
\* in flight
Generating(id) ==
    \/ \E t \in 1..Len(genTasks) :
           genTasks[t].content_id = id /\ genTasks[t].pc = "running"
    \/ \E t \in 1..Len(regenTasks) :
           regenTasks[t].content_id = id /\ regenTasks[t].pc = "running"

\* C22: a Reject arriving while generation or regeneration of the same
\* content is in flight is not applied: status, retry_count and
\* rejection_reason are unchanged by it.
C22_RejectWhileGeneratingRefused ==
    [][\A id \in ContentIds :
          Generating(id) /\ (RejectViaLink(id, "too salesy")
                             \/ RejectContent(id, "too salesy", FALSE))
          => /\ contents'[id].status = contents[id].status
             /\ contents'[id].retry_count = contents[id].retry_count
             /\ contents'[id].rejection_reason = contents[id].rejection_reason]_vars

\* C23: in every reachable state a content's rejection_reason is set only
\* while its status is REJECTED or RETRYING; a successful regeneration and
\* every Approve leave it cleared.
C23_ReasonOnlyWhileRejected ==
    \A id \in ContentIds :
        contents[id].rejection_reason # NULL
        => contents[id].status \in {"REJECTED", "RETRYING"}

\* C24: every content item created by recycling is created in DRAFT (or
\* RETRYING); it is never inserted directly in PENDING_APPROVAL or APPROVED.
C24_RecycledStartsAsDraft ==
    [][\A id \in 1..Len(contents') :
          id > Len(contents) /\ contents'[id].recycled_from # NoContent
          => contents'[id].status \in {"DRAFT", "RETRYING"}]_vars

\* C25: recycling a candidate whose client has posts_this_month >=
\* monthly_post_limit skips it without error: no content is created, the
\* generator is not called, the counter and the original are unchanged, and
\* the sweep goes on with the remaining candidates.
C25_SkippedAtQuota ==
    [][\A s \in 1..Len(sweeps) :
          RecycleStart(s)
          /\ client.posts_this_month >= client.monthly_post_limit
          => /\ contents' = contents
             /\ client' = client
             /\ sweeps'[s].pc # "generating"
             /\ sweeps'[s].created = sweeps[s].created
             /\ sweeps'[s].todo = Tail(sweeps[s].todo)
             /\ sweeps'[s].pc = "idle" <=> sweeps'[s].todo # <<>>]_vars

\* C25 witness: a finished sweep that skipped two candidates in a row at
\* the limit, after another sweep used the client's last slot
C25_Witness ==
    /\ client.posts_this_month = client.monthly_post_limit
    /\ \E s \in 1..Len(sweeps) :
           /\ sweeps[s].pc = "done"
           /\ Len(sweeps[s].skipped) = 2
           /\ sweeps[s].created = <<>>
    /\ Len(contents) = Len(OriginalRows) + client.monthly_post_limit

\* C26: every successful Approve through POST /content/{id}/approve is
\* eventually followed by a fan-out run on the content: the job it enqueues
\* observes APPROVED, so the content does not stay in APPROVED forever.
C26_ApprovedEventuallyPublished ==
    (contents[1].status = "APPROVED")
        ~> (contents[1].status \in {"PUBLISHED", "FAILED"})

\* C27: one content item raises its client's posts_this_month by at most 1
\* over its lifetime, counting generation, admin approval and regeneration
\* together: the counter never exceeds the number of content items.
C27_CountedOncePerContent ==
    client.posts_this_month <= Len(contents)

\* C28: a content item is published to each target platform at most once:
\* repeated or concurrent Approve calls never produce two successful
\* platform calls for the same content and platform, neither in two runs at
\* once nor in a run after one that already stored the platform's post id.
C28_PublishedOncePerPlatform ==
    \A t \in 1..Len(pubTasks) :
        LET task == pubTasks[t] IN
        /\ task.post_ids \cap contents[task.content_id].platform_post_ids = {}
        /\ \A u \in 1..Len(pubTasks) :
              u # t /\ pubTasks[u].content_id = task.content_id
              => task.post_ids \cap pubTasks[u].post_ids = {}

\* a step of a publish fan-out run
IsFanOutStep ==
    \E t \in 1..Len(pubTasks) :
        \/ PubStart(t)
        \/ PubFinish(t)
        \/ \E p \in Platforms :
              \/ PubValidationFail(t, p)
              \/ \E ok \in BOOLEAN, delivered \in BOOLEAN :
                    PubAttempt(t, p, ok, delivered)

\* C29: retry_count counts rejections only: it never decreases over a
\* content's lifetime, and a publish fan-out leaves it unchanged.
C29_RetryCountOnlyRejections ==
    [][\A id \in ContentIds :
          /\ contents'[id].retry_count >= contents[id].retry_count
          /\ IsFanOutStep
             => contents'[id].retry_count = contents[id].retry_count]_vars

============================================================================
